---- MODULE Spec2Model ----
(***************************************************************************)
(* Model of git-remote-subdir.py: the RefSpec / DirSpec algebra, the       *)
(* construction of RemoteSubdirHelper from the git configuration, and the  *)
(* remote-helper command loop (capabilities / list / fetch).               *)
(*                                                                         *)
(* Text is modelled as a sequence of tokens (a token plays the role of a   *)
(* character): 'refs/heads/main' is <<"refs/", "heads/", "main">>.         *)
(* startswith, endswith, split, rstrip and slicing work on these           *)
(* sequences the way the Python operations work on characters.             *)
(***************************************************************************)
EXTENDS Integers, Sequences, FiniteSets, TLC

(* ----------------------------- bounds ---------------------------------- *)

\* Number of command lines the dispatcher reads in one session.
MaxCmds == 3

\* Number of values of remote.<name>.fetch in the configuration.
MaxRefSpecs == 2

(* ------------------------- text primitives ----------------------------- *)

\* Python's None; a value no text is equal to.
None == <<"\\None">>

\* '{}'.format(v): None is rendered as the text 'None'.
Format(v) == IF v = None THEN <<"None">> ELSE v

\* Python truthiness of a str-or-None value.
Truthy(v) == v # None /\ v # <<>>

startswith(s, p) == Len(p) <= Len(s) /\ SubSeq(s, 1, Len(p)) = p

endswith(s, t) == Len(s) >= 1 /\ s[Len(s)] = t

\* s[n:]
DropFirst(s, n) == SubSeq(s, n + 1, Len(s))

\* s[:-1]
DropLast(s) == SubSeq(s, 1, Len(s) - 1)

Whitespace == {" ", "\n"}

RECURSIVE rstrip(_, _)
\* s.rstrip(chars): remove trailing tokens that are in chars.
rstrip(s, chars) ==
    IF s # <<>> /\ s[Len(s)] \in chars THEN rstrip(DropLast(s), chars) ELSE s

RECURSIVE SplitOn(_, _, _, _)
\* s.split(sep): cur is the piece being collected, acc the finished pieces.
SplitOn(s, sep, cur, acc) ==
    IF s = <<>> THEN Append(acc, cur)
    ELSE IF Head(s) = sep THEN SplitOn(Tail(s), sep, <<>>, Append(acc, cur))
    ELSE SplitOn(Tail(s), sep, Append(cur, Head(s)), acc)

split(s, sep) == SplitOn(s, sep, <<>>, <<>>)

RECURSIVE SplitWs(_, _, _)
\* s.split(): split on runs of whitespace, dropping empty pieces.
SplitWs(s, cur, acc) ==
    IF s = <<>> THEN (IF cur = <<>> THEN acc ELSE Append(acc, cur))
    ELSE IF Head(s) \in Whitespace
         THEN SplitWs(Tail(s), <<>>, IF cur = <<>> THEN acc ELSE Append(acc, cur))
    ELSE SplitWs(Tail(s), Append(cur, Head(s)), acc)

split_whitespace(s) == SplitWs(s, <<>>, <<>>)

(* ------------------------------ RefSpec -------------------------------- *)

RefSpec(l, r, f) == [left_prefix |-> l, right_prefix |-> r, force |-> f]

\* The result of a call that may raise: ok = FALSE carries the signal.
Raise(sig) == [ok |-> FALSE, err |-> sig, val |-> <<>>]

Return(v) == [ok |-> TRUE, err |-> "", val |-> v]

RefSpec_parse(refspec) ==
    LET force == startswith(refspec, <<"+">>)
        body  == IF force THEN DropFirst(refspec, 1) ELSE refspec
        parts == split(body, ":")
    IN  IF Len(parts) # 2 THEN Raise("InvalidRefSpec")
        ELSE IF ~(endswith(parts[1], "*") /\ endswith(parts[2], "*"))
        THEN Raise("InvalidRefSpec")
        ELSE Return(RefSpec(DropLast(parts[1]), DropLast(parts[2]), force))

\* __str__ that leaves out the force indicator.
RefSpec_str_NoForce(r) ==
    r.left_prefix \o <<"*", ":">> \o r.right_prefix \o <<"*">>

RefSpec_str(r) ==
    (IF r.force THEN <<"+">> ELSE <<>>)
        \o r.left_prefix \o <<"*", ":">> \o r.right_prefix \o <<"*">>

ltr(r, left_ref) ==
    IF startswith(left_ref, r.left_prefix)
    THEN r.right_prefix \o DropFirst(left_ref, Len(r.left_prefix))
    ELSE None

\* rtl that slices right_ref by the length of the left prefix.
rtl_SliceByLeft(r, right_ref) ==
    IF startswith(right_ref, r.right_prefix)
    THEN r.left_prefix \o DropFirst(right_ref, Len(r.left_prefix))
    ELSE None

rtl(r, right_ref) ==
    IF startswith(right_ref, r.right_prefix)
    THEN r.left_prefix \o DropFirst(right_ref, Len(r.right_prefix))
    ELSE None

\* with_left that keeps the receiver's left prefix.
with_left_KeepsLeft(r, left_prefix, force) ==
    RefSpec(r.left_prefix, r.right_prefix,
            IF force = "None" THEN r.force ELSE force = "True")

\* The optional argument force is "None" (omitted), "True" or "False";
\* "None" keeps the receiver's flag.
with_left(r, left_prefix, force) ==
    RefSpec(left_prefix, r.right_prefix,
            IF force = "None" THEN r.force ELSE force = "True")

with_right(r, right_prefix, force) ==
    RefSpec(r.left_prefix, right_prefix,
            IF force = "None" THEN r.force ELSE force = "True")

(* ------------------------------ DirSpec -------------------------------- *)

DirSpec(l, r) == [left_dir |-> l, right_dir |-> r]

DirSpec_parse(dirspec) ==
    IF dirspec = None THEN Raise("AttributeError")
    ELSE LET parts == split(dirspec, ":")
         IN  IF Len(parts) # 2 THEN Raise("InvalidDirSpec")
             ELSE IF startswith(parts[1], <<"/">>) \/ startswith(parts[2], <<"/">>)
             THEN Raise("InvalidDirSpec")
             ELSE Return(DirSpec(rstrip(parts[1], {"/"}), rstrip(parts[2], {"/"})))

DirSpec_str(d) == d.left_dir \o <<":">> \o d.right_dir

\* ltr that only looks at left_dir.
DirSpec_ltr_LeftOnly(d, tree_sha1) ==
    IF d.left_dir # <<>> THEN Raise("UnsupportedDirSpec")
    ELSE Return(tree_sha1)

DirSpec_ltr(d, tree_sha1) ==
    IF d.left_dir # <<>> THEN Raise("UnsupportedDirSpec")
    ELSE IF d.right_dir # <<>> THEN Raise("UnsupportedDirSpec")
    ELSE Return(tree_sha1)

(* --------------------- the environment's universe ---------------------- *)

RemoteNames == {"origin"}

GoodUrl == <<"https://example/repo.git">>

NestedUrl == <<"subdir:", "https://example/repo.git">>

\* Values of remote.<name>.url: absent, or one value.
UrlConfigs == {<<>>, <<GoodUrl>>, <<NestedUrl>>}

\* Values of remote.<name>.dirspec: absent, ':', 'app:lib', '/app:'.
DirSpecConfigs ==
    {<<>>, << <<":">> >>, << <<"app", ":", "lib">> >>, << <<"/", "app", ":">> >>}

\* '+refs/heads/*:refs/remotes/origin/*'
HeadsSpec == <<"+", "refs/", "heads/", "*", ":", "refs/", "remotes/", "origin", "/", "*">>

\* 'refs/tags/*:refs/remotes/origin/tags/*' (not forced)
TagsSpec == <<"refs/", "tags/", "*", ":", "refs/", "remotes/", "origin", "/", "tags/", "*">>

\* '+refs/heads/*:refs/remotes/other/*' (right side outside refs/remotes/origin/)
OtherSpec == <<"+", "refs/", "heads/", "*", ":", "refs/", "remotes/", "other", "/", "*">>

\* 'refs/heads/main:refs/remotes/origin/main' (no glob)
NoGlobSpec == <<"refs/", "heads/", "main", ":", "refs/", "remotes/", "origin", "/", "main">>

RefSpecTexts == {HeadsSpec, TagsSpec, OtherSpec, NoGlobSpec}

\* Values of remote.<name>.fetch: zero to MaxRefSpecs values, in file order.
FetchConfigs ==
    UNION {[1..n -> RefSpecTexts] : n \in 0..MaxRefSpecs}

RemoteMain == <<"refs/", "heads/", "main">>

RemoteTag == <<"refs/", "tags/", "v1">>

RemoteRefs == {RemoteMain, RemoteTag}

Oids == {"abc123", "def456"}

\* What the remote repository advertises when a fetch contacts it: some of
\* its refs, each at the object abc123.
Advertisements == UNION {[D -> {"abc123"}] : D \in SUBSET RemoteRefs}

LocalBranch == <<"refs/", "heads/", "main">>

UnmappedMain == <<"refs/", "remote-subdir/", "origin", "/", "main">>

UnmappedTag == <<"refs/", "remote-subdir/", "origin", "/", "tags/", "v1">>

\* The ref store when the helper starts: a local branch, and possibly refs
\* left under refs/remote-subdir/ by earlier sessions.
InitialRefStores ==
    {[r \in {LocalBranch} \cup S |-> "def456"] : S \in SUBSET {UnmappedMain, UnmappedTag}}

\* Command lines the client may send; <<>> is end-of-stream.
EndOfStream == <<>>

EmptyLine == <<"\n">>

CapabilitiesLine == <<"capabilities", "\n">>

ListLine == <<"list", "\n">>

FetchLine == <<"fetch", " ", "abc123", " ", "refs/", "heads/", "main", "\n">>

BogusLine == <<"bogus", "\n">>

BlankLine == <<" ", "\n">>

ListArgLine == <<"list", " ", "x", "\n">>

FetchOneArgLine == <<"fetch", " ", "abc123", "\n">>

CommandLines ==
    {EndOfStream, EmptyLine, CapabilitiesLine, ListLine, FetchLine, BogusLine,
     BlankLine, ListArgLine, FetchOneArgLine}

(* ------------------------------- Git ----------------------------------- *)

\* `git config --get <key>` on a key with the given values: the lines on
\* stdout and the exit status.  With several values git prints one of them:
\* the last one (status 0), or, in older versions, the first one followed by
\* status 2; pick says which.
git_config_get(values, pick) ==
    IF values = <<>> THEN [stdout |-> <<>>, status |-> 1]
    ELSE IF Len(values) = 1 THEN [stdout |-> <<values[1]>>, status |-> 0]
    ELSE IF pick = "last" THEN [stdout |-> <<values[Len(values)]>>, status |-> 0]
    ELSE [stdout |-> <<values[1]>>, status |-> 2]

config_get_one(config, key, pick) ==
    LET p == git_config_get(config[key], pick)
    IN  IF p.status # 0 THEN None ELSE rstrip(p.stdout[1], Whitespace)

\* The lines the generator yields; the non-zero exit status is swallowed.
config_get_all(config, key, pick) ==
    LET p == git_config_get(config[key], pick)
    IN  [i \in 1..Len(p.stdout) |-> rstrip(p.stdout[i], Whitespace)]

\* `git fetch <url> <refspec>`: every advertised ref matching the left side
\* is stored under the right side; without '+' an existing ref is kept.
git_fetch_one(store, adv, spec) ==
    LET upd   == {x \in DOMAIN adv :
                     /\ ltr(spec, x) # None
                     /\ (spec.force \/ ltr(spec, x) \notin DOMAIN store)}
        dests == {ltr(spec, x) : x \in upd}
    IN  [d \in DOMAIN store \cup dests |->
            IF d \in dests THEN adv[CHOOSE x \in upd : ltr(spec, x) = d]
            ELSE store[d]]

RECURSIVE git_fetch(_, _, _)
\* `git fetch <url> <refspecs...>`, the refspecs given as texts.
git_fetch(store, adv, refspecs) ==
    IF refspecs = <<>> THEN store
    ELSE git_fetch(git_fetch_one(store, adv, RefSpec_parse(Head(refspecs)).val),
                   adv, Tail(refspecs))

\* Tokens of ref names in byte order, for the sorted output of for-each-ref.
Alphabet ==
    <<"/", "heads/", "main", "origin", "refs/", "remote-subdir/", "remotes/",
      "tags/", "v1">>

Rank(t) == CHOOSE i \in 1..Len(Alphabet) : Alphabet[i] = t

RECURSIVE LexLess(_, _)
LexLess(a, b) ==
    IF a = <<>> THEN b # <<>>
    ELSE IF b = <<>> THEN FALSE
    ELSE IF Head(a) = Head(b) THEN LexLess(Tail(a), Tail(b))
    ELSE Rank(Head(a)) < Rank(Head(b))

RECURSIVE SortedRefs(_)
SortedRefs(S) ==
    IF S = {} THEN <<>>
    ELSE LET m == CHOOSE x \in S : \A y \in S \ {x} : LexLess(x, y)
         IN  <<m>> \o SortedRefs(S \ {m})

\* `git for-each-ref <pattern>`: (value, refname) of every ref under the
\* pattern, sorted by refname.
refs(store, pattern) ==
    LET names == SortedRefs({r \in DOMAIN store : startswith(r, pattern)})
    IN  [i \in 1..Len(names) |-> <<store[names[i]], names[i]>>]

(* ------------------------- RemoteSubdirHelper -------------------------- *)

UnmappedRefPrefix(remote_name) == <<"refs/", "remote-subdir/", remote_name, "/">>

MappedRefPrefix(remote_name) == <<"refs/", "remotes/", remote_name, "/">>

\* split_refspec whose mapspec starts at the bare unmapped prefix.
split_refspec_MapspecNoSuffix(mapped_ref_prefix, unmapped_ref_prefix, refspec) ==
    LET remove  == mapped_ref_prefix
        insert  == unmapped_ref_prefix
        updated == insert \o DropFirst(refspec.right_prefix, Len(remove))
    IN  IF ~startswith(refspec.right_prefix, remove)
        THEN Raise("RefSpecNamespaceMismatch")
        ELSE Return(<<with_right(refspec, updated, "True"),
                      with_left(refspec, insert, "None")>>)

split_refspec(mapped_ref_prefix, unmapped_ref_prefix, refspec) ==
    LET remove  == mapped_ref_prefix
        insert  == unmapped_ref_prefix
        updated == insert \o DropFirst(refspec.right_prefix, Len(remove))
    IN  IF ~startswith(refspec.right_prefix, remove)
        THEN Raise("RefSpecNamespaceMismatch")
        ELSE Return(<<with_right(refspec, updated, "True"),
                      with_left(refspec, updated, "None")>>)

\* Index of the first element of a sequence of results that raised, 0 if none.
FirstRaise(results) ==
    IF \E i \in 1..Len(results) : ~results[i].ok
    THEN CHOOSE i \in 1..Len(results) :
            ~results[i].ok /\ \A j \in 1..(i - 1) : results[j].ok
    ELSE 0

\* __init__ without the test of the url's scheme.
RemoteSubdirHelper_init_NestedAllowed(config, remote_name, pick) ==
    LET u        == config_get_one(config, "url", pick)
        d        == DirSpec_parse(config_get_one(config, "dirspec", pick))
        texts    == config_get_all(config, "fetch", pick)
        parsed   == [i \in 1..Len(texts) |-> RefSpec_parse(texts[i])]
        rs       == [i \in 1..Len(texts) |-> parsed[i].val]
        unmapped == UnmappedRefPrefix(remote_name)
        mapped   == MappedRefPrefix(remote_name)
        splits   == [i \in 1..Len(rs) |-> split_refspec(mapped, unmapped, rs[i])]
    IN  IF ~d.ok THEN Raise(d.err)
        ELSE IF FirstRaise(parsed) # 0 THEN Raise(parsed[FirstRaise(parsed)].err)
        \* self.dirspec is an object here, which is always true
        ELSE IF ~(Truthy(u) /\ rs # <<>>) THEN Raise("MissingConfiguration")
        ELSE IF FirstRaise(splits) # 0 THEN Raise(splits[FirstRaise(splits)].err)
        ELSE Return([url        |-> u,
                     dirspec    |-> d.val,
                     refspecs   |-> rs,
                     fetchspecs |-> [i \in 1..Len(rs) |-> splits[i].val[1]],
                     mapspecs   |-> [i \in 1..Len(rs) |-> splits[i].val[2]]])

\* RemoteSubdirHelper.__init__: the fields of the new object, or the signal.
RemoteSubdirHelper_init(config, remote_name, pick) ==
    LET u        == config_get_one(config, "url", pick)
        d        == DirSpec_parse(config_get_one(config, "dirspec", pick))
        texts    == config_get_all(config, "fetch", pick)
        parsed   == [i \in 1..Len(texts) |-> RefSpec_parse(texts[i])]
        rs       == [i \in 1..Len(texts) |-> parsed[i].val]
        unmapped == UnmappedRefPrefix(remote_name)
        mapped   == MappedRefPrefix(remote_name)
        splits   == [i \in 1..Len(rs) |-> split_refspec(mapped, unmapped, rs[i])]
    IN  IF ~d.ok THEN Raise(d.err)
        ELSE IF FirstRaise(parsed) # 0 THEN Raise(parsed[FirstRaise(parsed)].err)
        \* self.dirspec is an object here, which is always true
        ELSE IF ~(Truthy(u) /\ rs # <<>>) THEN Raise("MissingConfiguration")
        ELSE IF startswith(u, <<"subdir:">>) THEN Raise("NestedSubdirRemote")
        ELSE IF FirstRaise(splits) # 0 THEN Raise(splits[FirstRaise(splits)].err)
        ELSE Return([url        |-> u,
                     dirspec    |-> d.val,
                     refspecs   |-> rs,
                     fetchspecs |-> [i \in 1..Len(rs) |-> splits[i].val[1]],
                     mapspecs   |-> [i \in 1..Len(rs) |-> splits[i].val[2]]])

(* ------------------------------- state --------------------------------- *)

VARIABLES
    remote,      \* the remote name given on the command line
    config,      \* git configuration: key -> values, in file order
    refstore,    \* the local ref store: refname -> object id
    pc,          \* position of the process
    err,         \* the signal that ended the process, "" if none
    url, dirspec, refspecs, fetchspecs, mapspecs,   \* fields of the helper
    cmdline,     \* the line read last
    out,         \* everything written to out_f
    flushed,     \* how much of out has been flushed to the client
    pending,     \* lines of for-each-ref not yet consumed by do_list
    listStart,   \* Len(out) when the current do_list was entered
    advertised,  \* what the remote advertised to the last fetch
    fetchArgs,   \* arguments of the last git fetch: <<url, refspec texts>>
    fetchStatus, \* exit status of the last git fetch
    algIn,       \* input of an operation of the RefSpec / DirSpec algebra
    algOut,      \* what the operation applied to algIn returned
    nRead, nHandler, nFlush, nList, nFetch, nRefs   \* event counters

helperVars == <<url, dirspec, refspecs, fetchspecs, mapspecs>>

\* What no step of the helper process changes.
envVars == <<remote, config, algIn, algOut>>

countVars == <<nRead, nHandler, nFlush, nList, nFetch, nRefs>>

vars == <<remote, config, algIn, algOut, refstore, pc, err, url, dirspec, refspecs,
          fetchspecs, mapspecs, cmdline, out, flushed, pending, listStart,
          advertised, fetchArgs, fetchStatus, nRead, nHandler, nFlush, nList,
          nFetch, nRefs>>

\* No operation of the algebra is being applied on its own.
NoInput == [kind |-> "none"]

NoOutput == [op |-> "none"]

\* The fields of a helper that has not been constructed.
NoDirSpec == DirSpec(None, None)

Init ==
    /\ remote \in RemoteNames
    /\ config \in {[url |-> u, dirspec |-> d, fetch |-> f] :
                      u \in UrlConfigs, d \in DirSpecConfigs, f \in FetchConfigs}
    /\ refstore \in InitialRefStores
    /\ pc = "start"
    /\ err = ""
    /\ url = None
    /\ dirspec = NoDirSpec
    /\ refspecs = <<>>
    /\ fetchspecs = <<>>
    /\ mapspecs = <<>>
    /\ cmdline = <<>>
    /\ out = <<>>
    /\ flushed = 0
    /\ pending = <<>>
    /\ listStart = 0
    /\ advertised = <<>>
    /\ fetchArgs = <<>>
    /\ fetchStatus = 0
    /\ algIn = NoInput
    /\ algOut = NoOutput
    /\ nRead = 0 /\ nHandler = 0 /\ nFlush = 0
    /\ nList = 0 /\ nFetch = 0 /\ nRefs = 0

\* main(): construct the helper; a raise ends the process.
Construct ==
    /\ pc = "start"
    /\ \E pick \in {"first", "last"} :
         LET h == RemoteSubdirHelper_init(config, remote, pick)
         IN  IF h.ok
             THEN /\ url' = h.val.url
                  /\ dirspec' = h.val.dirspec
                  /\ refspecs' = h.val.refspecs
                  /\ fetchspecs' = h.val.fetchspecs
                  /\ mapspecs' = h.val.mapspecs
                  /\ pc' = "read"
                  /\ err' = err
             ELSE /\ pc' = "failed"
                  /\ err' = h.err
                  /\ UNCHANGED helperVars
    /\ UNCHANGED <<envVars, refstore, cmdline, out, flushed, pending, listStart,
                   advertised, fetchArgs, fetchStatus, countVars>>

(* process_commands *)

\* Only end-of-stream ends the loop.
SessionEnd_OnlyEof == {<<>>}

SessionEnd == {<<>>, <<"\n">>}

\* in_f.readline() and the test for the end of the command stream.
ReadLine ==
    /\ pc = "read"
    /\ nRead < MaxCmds
    /\ \E line \in CommandLines :
         /\ cmdline' = line
         /\ pc' = IF line \in SessionEnd THEN "done" ELSE "dispatch"
    /\ nRead' = nRead + 1
    /\ UNCHANGED <<envVars, refstore, err, helperVars, out, flushed, pending,
                   listStart, advertised, fetchArgs, fetchStatus, nHandler, nFlush, nList,
                   nFetch, nRefs>>

\* args = cmdline.rstrip().split()
args == split_whitespace(rstrip(cmdline, Whitespace))

\* The do_ methods of the helper and the number of arguments each takes
\* besides the output file.
Handlers == {<<"capabilities">>, <<"list">>, <<"fetch">>}

Arity(name) == IF name = <<"fetch">> THEN 2 ELSE 0

\* What getattr(self, 'do_' + args[0])(out_f, *args[1:]) raises before a
\* handler body runs, "" if the handler is entered.
DispatchSignal(a) ==
    IF a = <<>> THEN "IndexError"
    ELSE IF a[1] \notin Handlers THEN "UnknownCommand"
    ELSE IF Len(a) - 1 # Arity(a[1]) THEN "TypeError"
    ELSE ""

\* An unknown command is skipped and the loop goes on.
DispatchError_Ignore ==
    /\ pc = "dispatch"
    /\ DispatchSignal(args) # ""
    /\ IF DispatchSignal(args) = "UnknownCommand"
       THEN pc' = "read" /\ err' = err
       ELSE pc' = "failed" /\ err' = DispatchSignal(args)
    /\ UNCHANGED <<envVars, refstore, helperVars, cmdline, out, flushed, pending,
                   listStart, advertised, fetchArgs, fetchStatus, countVars>>

DispatchError ==
    /\ pc = "dispatch"
    /\ DispatchSignal(args) # ""
    /\ pc' = "failed"
    /\ err' = DispatchSignal(args)
    /\ UNCHANGED <<envVars, refstore, helperVars, cmdline, out, flushed, pending,
                   listStart, advertised, fetchArgs, fetchStatus, countVars>>

Entered(name) ==
    /\ pc = "dispatch"
    /\ DispatchSignal(args) = ""
    /\ args[1] = name

\* do_capabilities without the terminating blank line.
CapabilitiesResponse_NoTerminator == <<"*", "fetch", "\n">>

CapabilitiesResponse == <<"*", "fetch", "\n">> \o <<"\n">>

do_capabilities ==
    /\ Entered(<<"capabilities">>)
    /\ out' = out \o CapabilitiesResponse
    /\ nHandler' = nHandler + 1
    /\ pc' = "flush"
    /\ UNCHANGED <<envVars, refstore, err, helperVars, cmdline, flushed, pending,
                   listStart, advertised, fetchArgs, fetchStatus, nRead, nFlush, nList, nFetch,
                   nRefs>>

\* do_fetch answers with a blank line and returns.
do_fetch_NoOp ==
    /\ Entered(<<"fetch">>)
    /\ out' = out \o <<"\n">>
    /\ nHandler' = nHandler + 1
    /\ pc' = "flush"
    /\ UNCHANGED <<envVars, refstore, err, helperVars, cmdline, flushed, pending,
                   listStart, advertised, fetchArgs, fetchStatus, nRead, nFlush, nList, nFetch,
                   nRefs>>

do_fetch ==
    /\ Entered(<<"fetch">>)
    /\ nHandler' = nHandler + 1
    /\ pc' = "failed"
    /\ err' = "UnexpectedFetchCall"
    /\ UNCHANGED <<envVars, refstore, helperVars, cmdline, out, flushed, pending,
                   listStart, advertised, fetchArgs, fetchStatus, nRead, nFlush, nList, nFetch,
                   nRefs>>

\* The refspec arguments do_list gives to git fetch.
FetchRefspecArgs == [i \in 1..Len(fetchspecs) |-> RefSpec_str(fetchspecs[i])]

\* do_list that goes on to the for loop whatever git fetch returned.
do_list_fetch_IgnoresStatus ==
    /\ Entered(<<"list">>)
    /\ nHandler' = nHandler + 1
    /\ nList' = nList + 1
    /\ nFetch' = nFetch + 1
    /\ listStart' = Len(out)
    /\ fetchArgs' = <<url, FetchRefspecArgs>>
    /\ \E adv \in Advertisements, status \in {0, 1} :
         /\ advertised' = adv
         /\ fetchStatus' = status
         /\ refstore' = git_fetch(refstore, adv, FetchRefspecArgs)
         /\ pc' = "list_refs" /\ err' = err
    /\ UNCHANGED <<envVars, helperVars, cmdline, out, flushed, pending, nRead,
                   nFlush, nRefs>>

\* do_list, first statement: self.git.fetch(self.url, *fetchspecs) runs to
\* completion; a non-zero exit raises CalledProcessError.
do_list_fetch ==
    /\ Entered(<<"list">>)
    /\ nHandler' = nHandler + 1
    /\ nList' = nList + 1
    /\ nFetch' = nFetch + 1
    /\ listStart' = Len(out)
    /\ fetchArgs' = <<url, FetchRefspecArgs>>
    /\ \E adv \in Advertisements, status \in {0, 1} :
         /\ advertised' = adv
         /\ fetchStatus' = status
         /\ refstore' = git_fetch(refstore, adv, FetchRefspecArgs)
         /\ IF status = 0
            THEN pc' = "list_refs" /\ err' = err
            ELSE pc' = "failed" /\ err' = "CalledProcessError"
    /\ UNCHANGED <<envVars, helperVars, cmdline, out, flushed, pending, nRead,
                   nFlush, nRefs>>

\* do_list, the for loop is entered: for-each-ref is started on the
\* unmapped prefix.
do_list_refs ==
    /\ pc = "list_refs"
    /\ pending' = refs(refstore, UnmappedRefPrefix(remote))
    /\ nRefs' = nRefs + 1
    /\ pc' = "list_write"
    /\ UNCHANGED <<envVars, refstore, err, helperVars, cmdline, out, flushed,
                   listStart, advertised, fetchArgs, fetchStatus, nRead, nHandler, nFlush,
                   nList, nFetch>>

\* The line do_list writes for one (value, ref) of for-each-ref.
ListLineFor(value, ref) ==
    <<value, " ">> \o Format(rtl(fetchspecs[1], ref)) \o <<"\n">>

\* do_list, one iteration of the for loop.
do_list_write ==
    /\ pc = "list_write"
    /\ pending # <<>>
    /\ out' = out \o ListLineFor(Head(pending)[1], Head(pending)[2])
    /\ pending' = Tail(pending)
    /\ UNCHANGED <<envVars, refstore, pc, err, helperVars, cmdline, flushed,
                   listStart, advertised, fetchArgs, fetchStatus, countVars>>

\* do_list that also stores the first fetched ref under its mapped name.
do_list_end_StoresMapped ==
    /\ pc = "list_write"
    /\ pending = <<>>
    /\ out' = out \o <<"\n">>
    /\ pc' = "flush"
    /\ refstore' = [r \in DOMAIN refstore \cup {MappedRefPrefix(remote) \o <<"main">>} |->
                       IF r \in DOMAIN refstore THEN refstore[r] ELSE "abc123"]
    /\ UNCHANGED <<envVars, err, helperVars, cmdline, flushed, pending,
                   listStart, advertised, fetchArgs, fetchStatus, countVars>>

\* do_list, after the loop: the terminating blank line.
do_list_end ==
    /\ pc = "list_write"
    /\ pending = <<>>
    /\ out' = out \o <<"\n">>
    /\ pc' = "flush"
    /\ UNCHANGED <<envVars, refstore, err, helperVars, cmdline, flushed, pending,
                   listStart, advertised, fetchArgs, fetchStatus, countVars>>

\* The loop goes back to readline without flushing.
Flush_Missing ==
    /\ pc = "flush"
    /\ pc' = "read"
    /\ UNCHANGED <<envVars, refstore, err, helperVars, cmdline, out, flushed,
                   pending, listStart, advertised, fetchArgs, fetchStatus, countVars>>

\* out_f.flush() after the handler returned, then back to readline.
Flush ==
    /\ pc = "flush"
    /\ flushed' = Len(out)
    /\ nFlush' = nFlush + 1
    /\ pc' = "read"
    /\ UNCHANGED <<envVars, refstore, err, helperVars, cmdline, out, pending,
                   listStart, advertised, fetchArgs, fetchStatus, nRead, nHandler, nList,
                   nFetch, nRefs>>

Next ==
    \/ Construct
    \/ ReadLine
    \/ DispatchError
    \/ do_capabilities
    \/ do_fetch
    \/ do_list_fetch
    \/ do_list_refs
    \/ do_list_write
    \/ do_list_end
    \/ Flush

Spec == Init /\ [][Next]_vars

(* ------------- the RefSpec / DirSpec algebra on its own ---------------- *)

\* Length of the refspec and dirspec texts that are enumerated.
MaxTextLen == 4

TextTokens == {"+", ":", "*", "/", "a"}

\* Texts given to RefSpec.parse and DirSpec.parse: every text of up to
\* MaxTextLen tokens, the configured refspecs and 'app:lib'.
Texts ==
    UNION {[1..n -> TextTokens] : n \in 0..MaxTextLen}
        \cup RefSpecTexts \cup {<<"app", ":", "lib">>, <<"app", "/", "/", ":", "lib", "/">>}

\* Prefixes of the refspecs that are mapped and split.
Prefixes ==
    {<<>>, <<"refs/">>, <<"refs/", "heads/">>, <<"refs/", "tags/">>,
     MappedRefPrefix("origin"), MappedRefPrefix("origin") \o <<"tags/">>,
     MappedRefPrefix("other")}

RefSpecs == {RefSpec(l, r, f) : l \in Prefixes, r \in Prefixes, f \in BOOLEAN}

\* Ref names that are mapped.
RefNames ==
    {RemoteMain, RemoteTag, <<"refs/">>, <<"HEAD">>,
     MappedRefPrefix("origin") \o <<"main">>}

AlgInputs ==
    {[kind |-> "text", text |-> t, tree |-> o] : t \in Texts, o \in {"abc123"}}
        \cup {[kind |-> "map", spec |-> r, ref |-> x] : r \in RefSpecs, x \in RefNames}
        \cup {[kind |-> "split", remote_name |-> n, spec |-> r, ref |-> x] :
                 n \in RemoteNames, r \in RefSpecs, x \in RefNames}

\* Everything but algIn and algOut.
processVars ==
    <<remote, config, refstore, pc, err, helperVars, cmdline, out, flushed,
      pending, listStart, advertised, fetchArgs, fetchStatus, countVars>>

\* No helper process: only the algebra is exercised.
AlgInit ==
    /\ algIn \in AlgInputs
    /\ algOut = NoOutput
    /\ remote = "origin"
    /\ config = [url |-> <<>>, dirspec |-> <<>>, fetch |-> <<>>]
    /\ refstore = <<>>
    /\ pc = "algebra"
    /\ err = ""
    /\ url = None
    /\ dirspec = NoDirSpec
    /\ refspecs = <<>>
    /\ fetchspecs = <<>>
    /\ mapspecs = <<>>
    /\ cmdline = <<>>
    /\ out = <<>>
    /\ flushed = 0
    /\ pending = <<>>
    /\ listStart = 0
    /\ advertised = <<>>
    /\ fetchArgs = <<>>
    /\ fetchStatus = 0
    /\ nRead = 0 /\ nHandler = 0 /\ nFlush = 0
    /\ nList = 0 /\ nFetch = 0 /\ nRefs = 0

\* RefSpec.parse(text)
ApplyRefSpecParse ==
    /\ algIn.kind = "text"
    /\ algOut.op = "none"
    /\ algOut' = [op |-> "RefSpec.parse", res |-> RefSpec_parse(algIn.text)]
    /\ UNCHANGED <<algIn, processVars>>

\* str(spec) of the RefSpec that parse returned
ApplyRefSpecStr ==
    /\ algOut.op = "RefSpec.parse"
    /\ algOut.res.ok
    /\ algOut' = [op |-> "RefSpec.__str__", spec |-> algOut.res.val,
                  res |-> RefSpec_str(algOut.res.val)]
    /\ UNCHANGED <<algIn, processVars>>

\* DirSpec.parse(text)
ApplyDirSpecParse ==
    /\ algIn.kind = "text"
    /\ algOut.op = "none"
    /\ algOut' = [op |-> "DirSpec.parse", res |-> DirSpec_parse(algIn.text)]
    /\ UNCHANGED <<algIn, processVars>>

\* str(spec) of the DirSpec that parse returned
ApplyDirSpecStr ==
    /\ algOut.op = "DirSpec.parse"
    /\ algOut.res.ok
    /\ algOut' = [op |-> "DirSpec.__str__", spec |-> algOut.res.val,
                  res |-> DirSpec_str(algOut.res.val)]
    /\ UNCHANGED <<algIn, processVars>>

\* spec.ltr(tree) of the DirSpec that parse returned
ApplyDirSpecLtr ==
    /\ algOut.op = "DirSpec.parse"
    /\ algOut.res.ok
    /\ algOut' = [op |-> "DirSpec.ltr", spec |-> algOut.res.val,
                  res |-> DirSpec_ltr(algOut.res.val, algIn.tree)]
    /\ UNCHANGED <<algIn, processVars>>

\* spec.ltr(ref)
ApplyLtr ==
    /\ algIn.kind = "map"
    /\ algOut.op = "none"
    /\ algOut' = [op |-> "RefSpec.ltr", res |-> ltr(algIn.spec, algIn.ref)]
    /\ UNCHANGED <<algIn, processVars>>

\* spec.rtl(y) of the name y that spec.ltr returned
ApplyRtl ==
    /\ algOut.op = "RefSpec.ltr"
    /\ algOut.res # None
    /\ algOut' = [op |-> "RefSpec.rtl", arg |-> algOut.res,
                  res |-> rtl(algIn.spec, algOut.res)]
    /\ UNCHANGED <<algIn, processVars>>

\* helper.split_refspec(spec) for the helper of the remote remote_name
ApplySplit ==
    /\ algIn.kind = "split"
    /\ algOut.op = "none"
    /\ algOut' = [op |-> "split_refspec",
                  res |-> split_refspec(MappedRefPrefix(algIn.remote_name),
                                        UnmappedRefPrefix(algIn.remote_name),
                                        algIn.spec)]
    /\ UNCHANGED <<algIn, processVars>>

\* A ref of the left domain of spec mapped by spec and by the two specs
\* split_refspec derived from it:
\*   direct = spec.ltr(ref), mid = fetchspec.ltr(ref),
\*   ltr_mid = mapspec.ltr(mid), rtl_mid = mapspec.rtl(mid),
\*   rtl_direct = mapspec.rtl(direct)
ApplyDerived ==
    /\ algOut.op = "split_refspec"
    /\ algOut.res.ok
    /\ startswith(algIn.ref, algIn.spec.left_prefix)
    /\ LET fetchspec == algOut.res.val[1]
           mapspec   == algOut.res.val[2]
           direct    == ltr(algIn.spec, algIn.ref)
           mid       == ltr(fetchspec, algIn.ref)
       IN  algOut' = [op |-> "derived", fetchspec |-> fetchspec,
                      mapspec |-> mapspec, direct |-> direct, mid |-> mid,
                      ltr_mid |-> ltr(mapspec, mid),
                      rtl_mid |-> rtl(mapspec, mid),
                      rtl_direct |-> rtl(mapspec, direct)]
    /\ UNCHANGED <<algIn, processVars>>

AlgNext ==
    \/ ApplyRefSpecParse
    \/ ApplyRefSpecStr
    \/ ApplyDirSpecParse
    \/ ApplyDirSpecStr
    \/ ApplyDirSpecLtr
    \/ ApplyLtr
    \/ ApplyRtl
    \/ ApplySplit
    \/ ApplyDerived

AlgSpec == AlgInit /\ [][AlgNext]_vars

(* ------------------------- shared vocabulary --------------------------- *)

\* The helper object exists (construction returned).
Constructed == pc \notin {"start"} /\ url # None

\* Construction raised: the process failed before any line was read.
ConstructionFailed == pc = "failed" /\ url = None

\* What the current do_list has written so far.
ListResponse == DropFirst(out, listStart)

\* The configured values as the configuration file holds them.
ConfiguredUrl == config.url[1]

ConfiguredRefSpec(i) == RefSpec_parse(config.fetch[i]).val

\* The last n tokens of out.
OutTail(n) == SubSeq(out, Len(out) - n + 1, Len(out))

(* ------------------------------- C1 ------------------------------------ *)

\* C1 as stated in the specification: a capabilities command makes the
\* handler write exactly the line 'fetch' and a blank line, whatever came
\* before, and the input capabilities, empty line gives the whole output
\* fetch, empty line.
C1_Original ==
    /\ [][(pc = "dispatch" /\ args = << <<"capabilities">> >>)
            => out' = out \o <<"fetch", "\n", "\n">>]_vars
    /\ [](pc = "done" /\ nRead = 2 /\ nHandler = 1 /\ nList = 0
            => out = <<"fetch", "\n", "\n">>)

\* C1 (amended): a capabilities command, at any point of a session, makes
\* the handler write exactly the one capability line '*fetch' (fetch with
\* the mandatory marker) followed by one blank line and nothing else, and
\* the input capabilities, empty line gives the whole output *fetch, empty
\* line.
C1_Capabilities ==
    /\ [][(pc = "dispatch" /\ args = << <<"capabilities">> >>)
            => /\ out' = out \o <<"*", "fetch", "\n", "\n">>
               /\ pc' = "flush"
               /\ refstore' = refstore /\ nFetch' = nFetch]_vars
    /\ [](pc = "done" /\ nRead = 2 /\ nHandler = 1 /\ nList = 0
            => out = <<"*", "fetch", "\n", "\n">>)

\* A capabilities command answered after a list in the same session.
C1_Witness ==
    /\ pc = "flush"
    /\ cmdline = CapabilitiesLine
    /\ nList >= 1
    /\ OutTail(4) = <<"*", "fetch", "\n", "\n">>

(* ------------------- the configuration, as configured ------------------ *)

\* url, dirspec and at least one refspec are configured, and each parses.
ConfigWellFormed ==
    /\ config.url # <<>> /\ config.url[1] # <<>>
    /\ config.dirspec # <<>> /\ DirSpec_parse(config.dirspec[1]).ok
    /\ config.fetch # <<>>
    /\ \A i \in 1..Len(config.fetch) : RefSpec_parse(config.fetch[i]).ok

\* The right side of the configured refspec i lies under refs/remotes/<remote>/.
UnderMappedPrefix(i) ==
    startswith(ConfiguredRefSpec(i).right_prefix, MappedRefPrefix(remote))

\* A configuration the specification calls valid.
ConfigValid ==
    /\ ConfigWellFormed
    /\ ~startswith(ConfiguredUrl, <<"subdir:">>)
    /\ \A i \in 1..Len(config.fetch) : UnderMappedPrefix(i)

\* <unmapped prefix><suffix of R.right after the mapped prefix>, R being the
\* configured refspec i.
UnmappedSide(i) ==
    UnmappedRefPrefix(remote)
        \o DropFirst(ConfiguredRefSpec(i).right_prefix, Len(MappedRefPrefix(remote)))

(* ------------------------------- C2 ------------------------------------ *)

\* The text '+<R.left>*:<unmapped prefix><suffix>*' for the configured
\* refspec i.
C2_ForcedRefspec(i) ==
    <<"+">> \o ConfiguredRefSpec(i).left_prefix \o <<"*", ":">>
        \o UnmappedSide(i) \o <<"*">>

\* C2: with a valid configuration, every list runs git fetch exactly once,
\* against the configured url and with one forced refspec
\* '+<R.left>*:<unmapped prefix><suffix>*' for each configured refspec R,
\* and when that fetch has completed no ref has been enumerated and no line
\* of the response written.
C2_Claim ==
    (ConfigValid /\ nList > 0)
        => /\ nFetch = nList
           /\ fetchArgs = <<ConfiguredUrl,
                            [i \in 1..Len(config.fetch) |-> C2_ForcedRefspec(i)]>>
           /\ (pc = "list_refs" => (nRefs = nList - 1 /\ Len(out) = listStart))

(* ------------------------------- C3 ------------------------------------ *)

\* Names x with the left prefix of the configured refspec i that a
\* fetchspec could map onto ref.
C3_LeftDomain(i, ref) ==
    {ConfiguredRefSpec(i).left_prefix \o DropFirst(ref, k) : k \in 0..Len(ref)}

\* The line is '<value> <x>' for the ref x of R's left domain that the
\* fetchspec of R maps onto ref.
C3_LineAsClaimed(line, value, ref) ==
    \E x \in C3_LeftDomain(1, ref) :
        /\ ConfiguredRefSpec(1).left_prefix \o DropFirst(x, Len(ConfiguredRefSpec(1).left_prefix)) = x
        /\ UnmappedSide(1) \o DropFirst(x, Len(ConfiguredRefSpec(1).left_prefix)) = ref
        /\ line = <<value, " ">> \o x

\* C3: with one configured refspec R and the empty dirspec, the response to
\* list is one line '<object-id> <name>' for each ref under the unmapped
\* prefix after the fetch, <object-id> the ref's value and <name> the ref of
\* R's left domain that the fetchspec maps onto it, then one blank line.
C3_Claim ==
    (/\ ConfigValid
     /\ Len(config.fetch) = 1
     /\ config.dirspec[1] = <<":">>
     /\ pc = "flush"
     /\ cmdline = ListLine)
        => LET present == refs(refstore, UnmappedRefPrefix(remote))
               lines   == split(ListResponse, "\n")
               n       == Len(present)
           IN  /\ Len(lines) = n + 2
               /\ lines[n + 1] = <<>>
               /\ lines[n + 2] = <<>>
               /\ \A i \in 1..n :
                     C3_LineAsClaimed(lines[i], present[i][1], present[i][2])

(* ------------------------------- C4 ------------------------------------ *)

\* C4: in a session whose dirspec has a non-empty left or right directory,
\* no response line carrying an object id is ever written.
C4_Claim ==
    (/\ Constructed
     /\ (dirspec.left_dir # <<>> \/ dirspec.right_dir # <<>>))
        => \A i \in 1..Len(out) : out[i] \notin Oids

(* ------------------------------- C9 ------------------------------------ *)

\* C9: when url, dirspec or the fetch refspecs are absent from the
\* configuration, construction fails with MissingConfiguration and no
\* command line is read.
C9_Claim ==
    (/\ pc # "start"
     /\ (config.url = <<>> \/ config.dirspec = <<>> \/ config.fetch = <<>>))
        => (pc = "failed" /\ err = "MissingConfiguration" /\ nRead = 0)

(* ------------------------------- C10 ----------------------------------- *)

\* C10: with url, dirspec and refspecs configured and a url that is not
\* nested, construction fails with RefSpecNamespaceMismatch when some
\* configured refspec, not only the first, has a right side outside
\* refs/remotes/<remote>/; and when all of them lie under it construction
\* succeeds with exactly one (fetchspec, mapspec) pair per configured
\* refspec, in configuration order.
C10_Claim ==
    (pc # "start" /\ ConfigWellFormed /\ ~startswith(ConfiguredUrl, <<"subdir:">>))
        => /\ (\E i \in 1..Len(config.fetch) : ~UnderMappedPrefix(i))
                => (ConstructionFailed /\ err = "RefSpecNamespaceMismatch")
           /\ (\A i \in 1..Len(config.fetch) : UnderMappedPrefix(i))
                => /\ Constructed
                   /\ Len(fetchspecs) = Len(config.fetch)
                   /\ Len(mapspecs) = Len(config.fetch)
                   /\ \A i \in 1..Len(config.fetch) :
                         /\ fetchspecs[i] =
                              RefSpec(ConfiguredRefSpec(i).left_prefix,
                                      UnmappedSide(i), TRUE)
                         /\ mapspecs[i] =
                              RefSpec(UnmappedSide(i),
                                      ConfiguredRefSpec(i).right_prefix,
                                      ConfiguredRefSpec(i).force)

(* ------------------------------- C5 ------------------------------------ *)

\* C5: a command line `fetch <object-id> <ref-name>`, in any session state,
\* ends the process with UnexpectedFetchCall: the handler writes nothing,
\* does not return, and once the process has failed no line is read and
\* nothing is written.
C5_FetchIsFatal ==
    /\ [][(pc = "dispatch" /\ Len(args) = 3 /\ args[1] = <<"fetch">>)
            => /\ pc' = "failed"
               /\ err' = "UnexpectedFetchCall"
               /\ out' = out /\ flushed' = flushed /\ nFlush' = nFlush
               /\ refstore' = refstore]_vars
    /\ [][pc = "failed" => (pc' = "failed" /\ nRead' = nRead /\ out' = out)]_vars

\* A fetch command that arrived after a list and ended the process.
C5_Witness ==
    /\ pc = "failed"
    /\ err = "UnexpectedFetchCall"
    /\ cmdline = FetchLine
    /\ nList >= 1

(* ------------------------------- C6 ------------------------------------ *)

\* C6: a command line whose command name is none of capabilities, list,
\* fetch ends the process with UnknownCommand: no handler is entered,
\* nothing is written, and no further line is read.
C6_UnknownCommandIsFatal ==
    /\ [][(/\ pc = "dispatch"
            /\ args # <<>>
            /\ args[1] \notin {<<"capabilities">>, <<"list">>, <<"fetch">>})
            => /\ pc' = "failed"
               /\ err' = "UnknownCommand"
               /\ out' = out /\ flushed' = flushed
               /\ nHandler' = nHandler /\ nFetch' = nFetch]_vars
    /\ [][~(pc = "failed" /\ err = "UnknownCommand")]_vars

\* The line 'bogus' ended the process after an answered command.
C6_Witness ==
    /\ pc = "failed"
    /\ err = "UnknownCommand"
    /\ cmdline = BogusLine
    /\ nHandler >= 1

(* ------------------------------- C7 ------------------------------------ *)

\* s ends with an empty line.
EndsWithBlankLine(s) ==
    /\ s # <<>>
    /\ s[Len(s)] = "\n"
    /\ (Len(s) = 1 \/ s[Len(s) - 1] = "\n")

\* C7: a line is read only when every handler entered so far has returned
\* and been followed by exactly one flush, so that everything written,
\* including the terminating blank line of the last response, is visible
\* to the client before the next request is consumed.
C7_FlushBeforeNextRead ==
    /\ [][nRead' # nRead
            => /\ nFlush = nHandler
               /\ flushed = Len(out)
               /\ (nHandler > 0 => EndsWithBlankLine(out))]_vars
    /\ [](nFlush <= nHandler /\ nHandler <= nFlush + 1)

\* The second line has been read after the response to the first one, a
\* list that reported a ref, was flushed.
C7_Witness ==
    /\ pc = "dispatch"
    /\ nRead = 2
    /\ nList = 1
    /\ nFlush = 1
    /\ Len(out) > 1
    /\ flushed = Len(out)

(* ------------------------------- C8 ------------------------------------ *)

\* C8: reading the empty line or end-of-stream ends the session normally;
\* after that no line is read and no handler runs; and a session whose first
\* read is end-of-stream has written nothing and has run neither git fetch
\* nor git for-each-ref.
C8_SessionEnd ==
    /\ [][(nRead' = nRead + 1 /\ cmdline' \in {<<>>, <<"\n">>})
            => (pc' = "done" /\ err' = "")]_vars
    /\ [][pc # "done"]_vars
    /\ [](pc = "done" /\ nRead = 1 /\ cmdline = <<>>
            => out = <<>> /\ nHandler = 0 /\ nFetch = 0 /\ nRefs = 0)

\* The session ended at the empty line that followed an answered command.
C8_Witness ==
    /\ pc = "done"
    /\ cmdline = EmptyLine
    /\ nHandler >= 1
    /\ nFlush = nHandler

(* ------------------------------- C11 ----------------------------------- *)

\* The configured url uses the helper's own scheme.
NestedUrlConfigured ==
    config.url # <<>> /\ startswith(config.url[1], <<"subdir:">>)

DerivedApplied == algOut.op = "derived"

\* C12 as stated in the specification: for every configured RefSpec R whose
\* right prefix starts with the mapped prefix, its derived (fetchspec,
\* mapspec) and every ref x that starts with R's left prefix,
\* mapspec.rtl(fetchspec.ltr(x)) equals R.ltr(x).
C12_Original ==
    DerivedApplied => algOut.rtl_mid = algOut.direct

\* C12 (amended): for every such R, (fetchspec, mapspec) and x, the inverse
\* of the mapspec takes the mapped name R.ltr(x) back to the unmapped name
\* fetchspec.ltr(x): mapspec.rtl(R.ltr(x)) equals fetchspec.ltr(x), and
\* that name is not the no-match value.
C12_SplitComposition ==
    DerivedApplied
        => /\ algOut.rtl_direct = algOut.mid
           /\ algOut.mid # None

\* 'refs/heads/main' was taken through the specs derived from
\* '+refs/heads/*:refs/remotes/origin/*'.
C12_Witness ==
    /\ DerivedApplied
    /\ algIn.spec = RefSpec(<<"refs/", "heads/">>, MappedRefPrefix("origin"), TRUE)
    /\ algIn.ref = RemoteMain
    /\ algOut.rtl_direct = UnmappedRefPrefix("origin") \o <<"main">>

\* C13: for every configured RefSpec R whose right prefix starts with the
\* mapped prefix and every ref x that starts with R's left prefix,
\* mapspec.ltr(fetchspec.ltr(x)) equals R.ltr(x), and the intermediate name
\* fetchspec.ltr(x) lies under 'refs/remote-subdir/<remote>/'.
C13_LeftToRightComposition ==
    DerivedApplied
        => /\ algOut.ltr_mid = algOut.direct
           /\ algOut.direct # None
           /\ startswith(algOut.mid, UnmappedRefPrefix(algIn.remote_name))

\* 'refs/tags/v1' was taken through the specs derived from
\* 'refs/tags/*:refs/remotes/origin/tags/*', whose suffix is 'tags/'.
C13_Witness ==
    /\ DerivedApplied
    /\ algIn.spec = RefSpec(<<"refs/", "tags/">>,
                            MappedRefPrefix("origin") \o <<"tags/">>, FALSE)
    /\ algIn.ref = RemoteTag
    /\ algOut.mid = UnmappedRefPrefix("origin") \o <<"tags/", "v1">>
    /\ algOut.ltr_mid = MappedRefPrefix("origin") \o <<"tags/", "v1">>

\* The text without its optional leading '+'.
WithoutForce(text) ==
    IF text # <<>> /\ text[1] = "+" THEN DropFirst(text, 1) ELSE text

\* Number of ':' in a text.
Colons(text) == Cardinality({i \in 1..Len(text) : text[i] = ":"})

\* The text is a refspec: after the optional '+' there is exactly one ':',
\* and the term before it and the term after it both end in '*'.
RefSpecText(text) ==
    LET body == WithoutForce(text)
    IN  /\ Colons(body) = 1
        /\ \E i \in 2..Len(body) : body[i] = ":" /\ body[i - 1] = "*"
        /\ body[Len(body)] = "*"

\* C14: RefSpec.parse accepts exactly the refspec texts (optional leading
\* '+', exactly one ':', both terms ending in '*'), the parsed RefSpec is
\* forced exactly when the text starts with '+', every other text is
\* rejected with InvalidRefSpec, and str(parse(s)) equals s for every
\* accepted s.
C14_RoundTrip ==
    /\ algOut.op = "RefSpec.parse"
        => IF RefSpecText(algIn.text)
           THEN /\ algOut.res.ok
                /\ algOut.res.val.force = (algIn.text[1] = "+")
           ELSE /\ ~algOut.res.ok
                /\ algOut.res.err = "InvalidRefSpec"
    /\ algOut.op = "RefSpec.__str__" => algOut.res = algIn.text

\* '+refs/heads/*:refs/remotes/origin/*' was parsed and printed.
C14_Witness ==
    /\ algOut.op = "RefSpec.__str__"
    /\ algIn.text = HeadsSpec
    /\ algOut.spec.force

\* C15: for every RefSpec R and ref x, R.ltr(x) is the no-match value
\* exactly when x does not start with R's left prefix (nothing is raised),
\* and when R.ltr(x) is a name y, R.rtl(y) equals x.
C15_MappingInverse ==
    /\ algOut.op = "RefSpec.ltr"
        => IF startswith(algIn.ref, algIn.spec.left_prefix)
           THEN algOut.res = algIn.spec.right_prefix
                    \o DropFirst(algIn.ref, Len(algIn.spec.left_prefix))
           ELSE algOut.res = None
    /\ algOut.op = "RefSpec.rtl" => algOut.res = algIn.ref

\* 'refs/heads/main' was mapped to 'refs/remotes/origin/main' and back.
C15_Witness ==
    /\ algOut.op = "RefSpec.rtl"
    /\ algIn.ref = RemoteMain
    /\ algIn.spec.left_prefix = <<"refs/", "heads/">>
    /\ algOut.arg = MappedRefPrefix("origin") \o <<"main">>

\* The sides of a text with exactly one ':'.
LeftSide(text) ==
    SubSeq(text, 1, (CHOOSE i \in 1..Len(text) : text[i] = ":") - 1)

RightSide(text) ==
    SubSeq(text, (CHOOSE i \in 1..Len(text) : text[i] = ":") + 1, Len(text))

\* dir is side without its trailing separators.
Trimmed(side, dir) ==
    /\ startswith(side, dir)
    /\ \A i \in (Len(dir) + 1)..Len(side) : side[i] = "/"
    /\ ~endswith(dir, "/")

\* C17: for a text 'l:r', DirSpec.parse fails with InvalidDirSpec when l or
\* r starts with '/', and otherwise returns the DirSpec of l and r without
\* their trailing separators; ltr of a parsed DirSpec returns the tree it
\* is given exactly when both directories are empty and fails with
\* UnsupportedDirSpec when either is not; 'app:lib' prints as 'app:lib'.
C17_DirSpecStub ==
    /\ (algOut.op = "DirSpec.parse" /\ Colons(algIn.text) = 1)
        => IF \/ startswith(LeftSide(algIn.text), <<"/">>)
              \/ startswith(RightSide(algIn.text), <<"/">>)
           THEN /\ ~algOut.res.ok
                /\ algOut.res.err = "InvalidDirSpec"
           ELSE /\ algOut.res.ok
                /\ Trimmed(LeftSide(algIn.text), algOut.res.val.left_dir)
                /\ Trimmed(RightSide(algIn.text), algOut.res.val.right_dir)
    /\ algOut.op = "DirSpec.ltr"
        => IF algOut.spec.left_dir = <<>> /\ algOut.spec.right_dir = <<>>
           THEN algOut.res = Return(algIn.tree)
           ELSE /\ ~algOut.res.ok
                /\ algOut.res.err = "UnsupportedDirSpec"
    /\ (algOut.op = "DirSpec.__str__" /\ algIn.text = <<"app", ":", "lib">>)
        => algOut.res = algIn.text
    /\ (algOut.op = "DirSpec.ltr" /\ algIn.text = <<":">>)
        => algOut.res = Return(algIn.tree)

\* 'app:lib' was parsed and its ltr failed.
C17_Witness ==
    /\ algOut.op = "DirSpec.ltr"
    /\ algIn.text = <<"app", ":", "lib">>
    /\ algOut.spec = DirSpec(<<"app">>, <<"lib">>)
    /\ ~algOut.res.ok

(* ----------------------- claims C16, C18 - C20 -------------------------- *)

\* C16: a step in which the git fetch of `list` exits non-zero ends the
\* session with CalledProcessError, without enumerating refs and without
\* writing anything; after the failure no step is taken (no second fetch,
\* no response line, no terminating blank line, no flush).
C16_FetchFailureEndsSession ==
    [][/\ (nFetch' = nFetch + 1 /\ fetchStatus' # 0)
           => /\ pc' = "failed"
              /\ err' = "CalledProcessError"
              /\ out' = out
              /\ nRefs' = nRefs
       /\ (pc = "failed" /\ err = "CalledProcessError") => UNCHANGED vars]_vars

\* The fetch of the second `list` failed after the first `list` was answered.
C16_Witness ==
    /\ pc = "failed"
    /\ err = "CalledProcessError"
    /\ fetchStatus # 0
    /\ nList = 2 /\ nFetch = 2 /\ nRefs = 1
    /\ Len(out) = listStart
    /\ flushed = Len(out)

\* C18: with a valid configuration, all derived mapspecs have the same
\* left (unmapped-side) prefix, the inverse of the first fetchspec names
\* every ref under the unmapped prefix as the inverse of any fetchspec
\* whose right side covers it does, and no `list` response carries the
\* text of the no-match value in place of a ref name.
C18_Claim ==
    (ConfigValid /\ Constructed)
        => /\ \A i, j \in 1..Len(mapspecs) :
                 mapspecs[i].left_prefix = mapspecs[j].left_prefix
           /\ \A ref \in DOMAIN refstore : \A i \in 1..Len(fetchspecs) :
                 startswith(ref, fetchspecs[i].right_prefix)
                     => rtl(fetchspecs[1], ref) = rtl(fetchspecs[i], ref)
           /\ \A k \in 1..Len(out) : out[k] # "None"

\* C19: the ref store changes, and git fetch runs, only in the fetch step
\* of a `list` command; git for-each-ref runs only inside a `list`; no
\* other step (capabilities, fetch, unknown command, end of the session)
\* changes the ref store or runs a command; and once constructed, url,
\* dirspec, refspecs, fetchspecs and mapspecs never change, nor does the
\* configuration.
C19_Frame ==
    [][/\ (refstore' # refstore \/ nFetch' # nFetch)
           => /\ pc = "dispatch" /\ cmdline = ListLine
              /\ nFetch' = nFetch + 1
       /\ nRefs' # nRefs => (pc = "list_refs" /\ cmdline = ListLine)
       /\ pc # "start" => UNCHANGED helperVars
       /\ UNCHANGED <<remote, config>>]_vars

\* After a list whose fetch stored a ref, a capabilities command and the end
\* of the session: the fetched ref is the only change to the ref store.
C19_Witness ==
    /\ pc = "done"
    /\ nList = 1 /\ nFetch = 1 /\ nHandler = 2
    /\ UnmappedMain \in DOMAIN refstore
    /\ refstore[UnmappedMain] = "abc123"
    /\ refstore[LocalBranch] = "def456"
    /\ Len(fetchspecs) = 1

\* C20: for a line that is neither the empty line nor end-of-stream, the
\* dispatcher either enters one registered handler (whose output is
\* flushed when it returns) or fails with UnknownCommand, and fetch fails
\* with UnexpectedFetchCall; no other failure comes from the dispatcher.
C20_Claim ==
    [][pc = "dispatch"
        => \/ /\ nHandler' = nHandler + 1
              /\ pc' \in {"flush", "list_refs", "failed"}
              /\ pc' = "failed" => err' \in {"UnexpectedFetchCall", "CalledProcessError"}
           \/ /\ nHandler' = nHandler
              /\ pc' = "failed"
              /\ err' = "UnknownCommand"]_vars

====
